---- MODULE Spec2Model ----
(***************************************************************************)
(* Model of the store facade of packages/store/src/store.ts: the query     *)
(* compiler toDocumentExpressions (build / handleValue / handleOperator)   *)
(* and the document operations load / save / delete / find / count that    *)
(* run through _runOperation, the registration of the storable components, *)
(* the @route() decorator, and the values of a Field of                    *)
(* packages/model/src/field.js.                                            *)
(***************************************************************************)
EXTENDS Integers, Sequences, FiniteSets, TLC

VARIABLES
    query,      \* the query handed to toDocumentExpressions
    pc,         \* "ready" before the call, "done" after it
    result,     \* what toDocumentExpressions returned or threw
    storables,  \* Store._storables: the names of the registered storables
    trace,      \* Store._trace: 0 for undefined, else the array it refers to
    traces,     \* the trace arrays created by startTrace, by reference
    calls,      \* the calls of load / save / delete / find / count made so far
    backendLog, \* the abstract document operations invoked, in order
    rootComponents, \* Store._rootComponents of every store
    registries,     \* Store._storables of every store: name -> storable or ""
    storeOf,        \* the store every component is registered in, 0 for none
    registration,   \* the last registration call and how it ended
    routed,         \* the method decorated with @route() and its class
    field           \* a Field, a value of it and what became of the value

compileVars == <<query, pc, result>>
storeVars == <<storables, trace, traces, calls, backendLog>>
registrationVars == <<rootComponents, registries, storeOf, registration>>
otherVars == <<registrationVars, routed, field>>
vars == <<query, pc, result, storables, trace, traces, calls, backendLog,
          rootComponents, registries, storeOf, registration, routed, field>>

-----------------------------------------------------------------------------
(* Bounds *)

\* scalar leaves are the numbers 1..MaxNum
MaxNum == 2
\* longest array handed to $and / $or / $nor
MaxArrLen == 2
\* calls of the document operations made on the store
MaxCalls == 1
\* calls of startTrace made on the store
MaxTraces == 2
\* calls of the document operations made on the store while it is tracing,
\* several of them in flight together
MaxTracedCalls == 2
\* calls of startTrace made on the store while the options of the document
\* operations are explored
MaxOperationTraces == 1
\* stores built
MaxStores == 2
\* calls of registerStorable and registerRootComponent made on the stores
MaxRegistrations == 3
\* reads of the method decorated with @route()
MaxReads == 3

-----------------------------------------------------------------------------
(* Plain values.  Every value is a record [t, n, kids]: t is the JavaScript  *)
(* shape, n the number of a scalar, kids the entries [k, v] of a mapping (in *)
(* insertion order) or of an array (k = "").                                 *)

Num(i) == [t |-> "num", n |-> i, kids |-> <<>>]
Bool(i) == [t |-> "bool", n |-> i, kids |-> <<>>]
Undefined == [t |-> "undefined", n |-> 0, kids |-> <<>>]
Entry(key, value) == [k |-> key, v |-> value]
\* a string: its text is the key of its only entry
Str(text) == [t |-> "str", n |-> 0, kids |-> <<Entry(text, Undefined)>>]
Obj(entries) == [t |-> "obj", n |-> 0, kids |-> entries]
Arr(entries) == [t |-> "arr", n |-> 0, kids |-> entries]
Item(value) == Entry("", value)

\* the wire form of undefined, as in serialization.test.ts
UndefinedMarker == Obj(<<Entry("__undefined", Bool(1))>>)

isPlainObject_nonEmpty(value) == value.t = "obj" /\ value.kids # <<>>
isPlainObject(value) == value.t = "obj"
isArray(value) == value.t = "arr"

RECURSIVE deserialize(_)
deserialize(value) ==
    IF value = UndefinedMarker THEN Undefined
    ELSE IF value.t \in {"obj", "arr"}
         THEN [value EXCEPT !.kids =
                  [i \in 1..Len(value.kids) |->
                      Entry(value.kids[i].k, deserialize(value.kids[i].v))]]
         ELSE value

toDocument(value) == deserialize(value)

RECURSIVE serialize(_)
serialize(value) ==
    IF value = Undefined THEN UndefinedMarker
    ELSE IF value.t \in {"obj", "arr"}
         THEN [value EXCEPT !.kids =
                  [i \in 1..Len(value.kids) |->
                      Entry(value.kids[i].k, serialize(value.kids[i].v))]]
         ELSE value

fromDocument(document) == serialize(document)

\* the names of the properties of a mapping
PropertyNames(object) == {object.kids[i].k : i \in 1..Len(object.kids)}
\* the value of a property that the mapping has
Property(object, name) ==
    object.kids[CHOOSE i \in 1..Len(object.kids) : object.kids[i].k = name].v

-----------------------------------------------------------------------------
(* Attribute selectors and documents *)

\* an array of names stands for the mapping of these names to true
normalizeAttributeSelector(attributeSelector) ==
    IF isArray(attributeSelector)
    THEN Obj([i \in 1..Len(attributeSelector.kids) |->
                  Entry(attributeSelector.kids[i].v.kids[1].k, Bool(1))])
    ELSE attributeSelector

\* the selection of an attribute: false when the mapping has no such key
selectionOf(attributeSelector, name) ==
    IF attributeSelector.t = "bool" THEN attributeSelector
    ELSE IF name \in PropertyNames(attributeSelector)
    THEN Property(attributeSelector, name)
    ELSE Bool(0)

\* the subset of a document that the selector selects, with the attributes
\* named in includeAttributeNames besides
RECURSIVE pickFromAttributeSelector(_, _, _)
pickFromAttributeSelector(value, attributeSelector, includeAttributeNames) ==
    IF attributeSelector = Bool(1) THEN value
    ELSE IF isArray(value)
    THEN [value EXCEPT !.kids =
             [i \in 1..Len(value.kids) |->
                 Item(pickFromAttributeSelector(value.kids[i].v, attributeSelector,
                                                includeAttributeNames))]]
    ELSE IF ~isPlainObject(value) THEN value
    ELSE LET picked(entry) ==
                 \/ entry.k \in includeAttributeNames
                 \/ selectionOf(attributeSelector, entry.k) # Bool(0)
             kept == SelectSeq(value.kids, picked)
         IN  Obj([i \in 1..Len(kept) |->
                     IF kept[i].k \in includeAttributeNames THEN kept[i]
                     ELSE Entry(kept[i].k,
                                pickFromAttributeSelector(
                                    kept[i].v,
                                    selectionOf(attributeSelector, kept[i].k),
                                    includeAttributeNames))])

\* deleteUndefinedProperties(document), of core-helpers
RECURSIVE deleteUndefinedProperties(_)
deleteUndefinedProperties_kept(document) == document
deleteUndefinedProperties(document) ==
    IF document.t \notin {"obj", "arr"} THEN document
    ELSE LET defined(entry) == entry.v # Undefined
             kept == SelectSeq(document.kids, defined)
         IN  [document EXCEPT !.kids =
                 [i \in 1..Len(kept) |->
                     Entry(kept[i].k, deleteUndefinedProperties(kept[i].v))]]

\* [assign, remove]: the properties to set, with their values, and the names
\* of the properties to remove
DocumentPatch(assign, remove) == [assign |-> assign, remove |-> remove]
NoDocumentPatch == DocumentPatch(<<>>, <<>>)

buildDocumentPatch_assignOnly(document) ==
    LET defined(entry) == entry.v # Undefined
    IN  DocumentPatch(SelectSeq(document.kids, defined), <<>>)
buildDocumentPatch(document) ==
    LET defined(entry) == entry.v # Undefined
        undefined(entry) == entry.v = Undefined
        removed == SelectSeq(document.kids, undefined)
    IN  DocumentPatch(SelectSeq(document.kids, defined),
                      [i \in 1..Len(removed) |-> removed[i].k])

\* the record with a property set: in its place when the record has it, at
\* the end when it has not
assignProperty(record, entry) ==
    IF entry.k \in PropertyNames(record)
    THEN [record EXCEPT !.kids =
             [i \in 1..Len(record.kids) |->
                 IF record.kids[i].k = entry.k THEN entry ELSE record.kids[i]]]
    ELSE [record EXCEPT !.kids = Append(record.kids, entry)]

RECURSIVE assignProperties(_, _)
assignProperties(record, assign) ==
    IF assign = <<>> THEN record
    ELSE assignProperties(assignProperty(record, Head(assign)), Tail(assign))

\* a backend record after the assign operations, then the remove operations
applyDocumentPatch(record, documentPatch) ==
    LET assigned == assignProperties(record, documentPatch.assign)
        removable == {documentPatch.remove[i] : i \in 1..Len(documentPatch.remove)}
        kept(entry) == entry.k \notin removable
    IN  [assigned EXCEPT !.kids = SelectSeq(assigned.kids, kept)]

-----------------------------------------------------------------------------
(* Registration of the storable components.  A component class is known by  *)
(* the name of its class; Film is a second class whose component name is    *)
(* 'Movie'.                                                                  *)

Stores == 1..MaxStores
Components == {"Backend", "Movie", "Actor", "Frontend", "Session", "Film"}
getComponentName(component) == IF component = "Film" THEN "Movie" ELSE component
ComponentNames == {getComponentName(component) : component \in Components}
isStorableLikeClass(component) == component \in {"Movie", "Actor", "Film"}

\* the components a component provides: @provide() static Movie = Movie
ProvidedComponents(component) ==
    IF component = "Backend" THEN {"Movie"}
    ELSE IF component = "Movie" THEN {"Actor"}
    ELSE IF component = "Frontend" THEN {"Session", "Film"}
    ELSE IF component = "Session" THEN {"Frontend"}
    ELSE {}

\* the components provided directly or recursively, the component left out
RECURSIVE ProvidedFrom(_, _)
ProvidedFrom(components, visited) ==
    LET provided == UNION {ProvidedComponents(c) : c \in components} \ visited
    IN  IF provided = {} THEN visited
        ELSE ProvidedFrom(provided, visited \cup provided)
DeepProvidedComponents(component) == ProvidedFrom({component}, {}) \ {component}

\* getProvidedComponents({deep: true}): these components, in the order of
\* the iteration, which is any order
getProvidedComponents(component) ==
    LET provided == DeepProvidedComponents(component)
    IN  {order \in [1..Cardinality(provided) -> provided] :
            \A i, j \in 1..Cardinality(provided) : order[i] = order[j] => i = j}

\* [registries, storeOf, error, storableCount]: the registries and the stores
\* of the storables while a registration runs, the error thrown ("": none)
Registering(theRegistries, theStoreOf, error, storableCount) ==
    [registries |-> theRegistries, storeOf |-> theStoreOf,
     error |-> error, storableCount |-> storableCount]

hasStore(r, storable) == r.storeOf[storable] # 0
getStore(r, storable) == r.storeOf[storable]
hasStorable(store, name) == registries[store][name] # ""

\* this.registerStorable(storable)
registerStorable_overwriting(r, store, storable) ==
    IF ~isStorableLikeClass(storable) THEN [r EXCEPT !.error = "NotStorableLike"]
    ELSE IF hasStore(r, storable)
    THEN IF getStore(r, storable) = store THEN r
         ELSE [r EXCEPT !.error = "RegisteredInAnotherStore"]
    ELSE [r EXCEPT !.storeOf[storable] = store,
                   !.registries[store][getComponentName(storable)] = storable]
registerStorable(r, store, storable) ==
    IF ~isStorableLikeClass(storable) THEN [r EXCEPT !.error = "NotStorableLike"]
    ELSE IF hasStore(r, storable)
    THEN IF getStore(r, storable) = store THEN r
         ELSE [r EXCEPT !.error = "RegisteredInAnotherStore"]
    ELSE IF r.registries[store][getComponentName(storable)] # ""
    THEN [r EXCEPT !.error = "NameAlreadyRegistered"]
    ELSE [r EXCEPT !.storeOf[storable] = store,
                   !.registries[store][getComponentName(storable)] = storable]

\* registerIfComponentIsStorable(component); nothing runs after a throw
registerIfComponentIsStorable(r, store, component) ==
    IF r.error # "" \/ ~isStorableLikeClass(component) THEN r
    ELSE LET registered == registerStorable(r, store, component)
         IN  IF registered.error # "" THEN registered
             ELSE [registered EXCEPT !.storableCount = @ + 1]

RECURSIVE registerEach(_, _, _)
registerEach(r, store, components) ==
    IF components = <<>> THEN r
    ELSE registerEach(registerIfComponentIsStorable(r, store, Head(components)),
                      store, Tail(components))

\* the components registerRootComponent goes through: the root component,
\* then the provided ones
componentsOf_providedOnly(rootComponent, providedComponents) == providedComponents
componentsOf(rootComponent, providedComponents) ==
    <<rootComponent>> \o providedComponents

\* if (storableCount === 0) throw ...
counted(r) ==
    IF r.error = "" /\ r.storableCount = 0
    THEN [r EXCEPT !.error = "NoStorableComponents"]
    ELSE r

Registration(n, op, store, component, error) ==
    [n |-> n, op |-> op, store |-> store, component |-> component, error |-> error]

InitRegistration ==
    /\ rootComponents = [store \in Stores |-> {}]
    /\ registries = [store \in Stores |-> [name \in ComponentNames |-> ""]]
    /\ storeOf = [component \in Components |-> 0]
    /\ registration = Registration(0, "", 0, "", "")

\* what a registration call leaves behind
registeredAs(op, store, component, r) ==
    /\ registration.n < MaxRegistrations
    /\ registries' = r.registries
    /\ storeOf' = r.storeOf
    /\ registration' = Registration(registration.n + 1, op, store, component, r.error)
    /\ UNCHANGED <<compileVars, storeVars, routed, field>>

\* store.registerStorable(storable), called from outside
RegisterStorable ==
    \E store \in Stores, storable \in Components :
        /\ registeredAs("registerStorable", store, storable,
                        registerStorable(Registering(registries, storeOf, "", 0),
                                         store, storable))
        /\ UNCHANGED rootComponents

\* store.registerRootComponent(rootComponent)
RegisterRootComponent ==
    \E store \in Stores, rootComponent \in Components :
        \E providedComponents \in getProvidedComponents(rootComponent) :
            /\ rootComponents' = [rootComponents EXCEPT ![store] = @ \cup {rootComponent}]
            /\ registeredAs("registerRootComponent", store, rootComponent,
                            counted(registerEach(
                                Registering(registries, storeOf, "", 0), store,
                                componentsOf(rootComponent, providedComponents))))

-----------------------------------------------------------------------------
(* @route(): the getter that stands for a decorated static method.  The      *)
(* method is read through the class it is declared in or through a subclass, *)
(* and each of the two has a router or has none.                             *)

RoutableClasses == {"Movie", "Trailer"}
URLHelpers == <<"matchURL", "generateURL", "generatePath", "generateQueryString">>
RouterHelpers == <<"navigate", "redirect", "reload", "isActive">>

\* [isDecorated, isDecoratedWithRouter, defined, hasRouter, reads]: the two
\* flags of the method, the names given to defineMethod so far, the classes
\* that have a router, and what every read was made through and returned
Routed(isDecorated, isDecoratedWithRouter, defined, hasRouter, reads) ==
    [isDecorated |-> isDecorated, isDecoratedWithRouter |-> isDecoratedWithRouter,
     defined |-> defined, hasRouter |-> hasRouter, reads |-> reads]

decorate(r) ==
    [r EXCEPT !.defined = @ \o URLHelpers, !.isDecorated = TRUE]

decorateWithRouter(r) ==
    [r EXCEPT !.defined = @ \o RouterHelpers, !.isDecoratedWithRouter = TRUE]

\* the read of the property through the class `this`
ReadOf(this, hasRouter, returned) ==
    [this |-> this, hasRouter |-> hasRouter, returned |-> returned]

get_unflagged(r, this) ==
    LET actualMethod == "method"
        decorated == IF ~r.isDecorated THEN decorate(r) ELSE r
        withRouter == IF decorated.hasRouter[this]
                      THEN decorateWithRouter(decorated)
                      ELSE decorated
    IN  [withRouter EXCEPT
            !.reads = Append(@, ReadOf(this, r.hasRouter[this], actualMethod))]
get(r, this) ==
    LET actualMethod == "method"
        decorated == IF ~r.isDecorated THEN decorate(r) ELSE r
        withRouter == IF ~decorated.isDecoratedWithRouter /\ decorated.hasRouter[this]
                      THEN decorateWithRouter(decorated)
                      ELSE decorated
    IN  [withRouter EXCEPT
            !.reads = Append(@, ReadOf(this, r.hasRouter[this], actualMethod))]

InitRoute ==
    routed = Routed(FALSE, FALSE, <<>>, [c \in RoutableClasses |-> FALSE], <<>>)

\* Movie.home, Trailer.home: the property is read
Read ==
    /\ Len(routed.reads) < MaxReads
    /\ \E this \in RoutableClasses : routed' = get(routed, this)
    /\ UNCHANGED <<compileVars, storeVars, registrationVars, field>>

\* a router is registered for a class: hasRouter() is true from now on
RouterAvailable ==
    /\ \E c \in RoutableClasses :
           /\ ~routed.hasRouter[c]
           /\ routed' = [routed EXCEPT !.hasRouter[c] = TRUE]
    /\ UNCHANGED <<compileVars, storeVars, registrationVars, field>>

-----------------------------------------------------------------------------
(* Field: the values of a field are serialized and created again.            *)

Null == [t |-> "null", n |-> 0, kids |-> <<>>]
\* a Date by its time value in milliseconds; the time value of an invalid
\* Date is NaN
DateOf(time) == [t |-> "date", n |-> time, kids |-> <<>>]
InvalidDate == [t |-> "date", n |-> -1, kids |-> <<>>]
\* the string that toISOString() gives for a time value
ISOString(time) == [t |-> "str", n |-> time, kids |-> <<Entry("ISO", Undefined)>>]

\* [error, value]: what a call returned, or the error it threw
Value(value) == [error |-> "", value |-> value]
Thrown(error) == [error |-> error, value |-> Undefined]

BuiltInTypes == {"boolean", "number", "string", "object", "Date"}

\* builtInTypes[type].checkType(value)
checkType(type, value) ==
    IF type = "boolean" THEN value.t = "bool"
    ELSE IF type = "number" THEN value.t = "num"
    ELSE IF type = "string" THEN value.t = "str"
    ELSE IF type = "object" THEN isPlainObject(value)
    ELSE value.t = "date"

\* builtInTypes.Date.serialize(value): value.toISOString()
serializeDate(value) ==
    IF value.t # "date" THEN Thrown("TypeError")
    ELSE IF value = InvalidDate THEN Thrown("RangeError")
    ELSE Value(ISOString(value.n))

\* builtInTypes.Date.deserialize(value): new Date(value)
deserializeDate(value) ==
    IF value.t = "num" THEN DateOf(value.n)
    ELSE IF value.t = "date" THEN value
    ELSE IF value.t = "str" /\ value.kids[1].k = "ISO" THEN DateOf(value.n)
    ELSE InvalidDate

\* value[name], undefined when the value has no such property
propertyOf(value, name) ==
    IF value.t = "obj" /\ name \in PropertyNames(value)
    THEN Property(value, name)
    ELSE Undefined

\* field.serializeValue(value, {includeUndefinedFields})
serializeValue(type, value, includeUndefinedFields) ==
    IF value = Undefined
    THEN Value(IF includeUndefinedFields
               THEN Obj(<<Entry("_type", Str("undefined"))>>)
               ELSE Undefined)
    ELSE IF value = Null THEN Value(Null)
    ELSE IF type = "Date"
    THEN LET serialized == serializeDate(value)
         IN  IF serialized.error # "" THEN serialized
             ELSE Value(Obj(<<Entry("_type", Str(type)),
                              Entry("_value", serialized.value)>>))
    ELSE Value(value)

\* the value that createValue goes on with: the _value of a mapping whose
\* _type names a built-in type, deserialized if that type says how
unwrapped(value) ==
    LET type == propertyOf(value, "_type")
    IN  IF value.t \in {"obj", "arr", "date"} /\ type # Undefined
            /\ type \in {Str(builtIn) : builtIn \in BuiltInTypes}
        THEN IF type = Str("Date")
             THEN deserializeDate(propertyOf(value, "_value"))
             ELSE propertyOf(value, "_value")
        ELSE value

\* field.createValue(value)
createValue(type, value) ==
    IF value = Undefined THEN Value(Undefined)
    ELSE IF value = Null THEN Value(Null)
    ELSE IF propertyOf(value, "_type") = Str("undefined") THEN Value(Undefined)
    ELSE IF ~checkType(type, unwrapped(value)) THEN Thrown("TypeMismatch")
    ELSE Value(unwrapped(value))

\* the values given to the fields
FieldValues ==
    {Undefined, Null, Bool(0), Bool(1), Str("a"), Str("undefined"),
     InvalidDate, Obj(<<>>), Obj(<<Entry("a", Num(1))>>),
     Obj(<<Entry("_type", Str("undefined"))>>),
     Obj(<<Entry("_type", Str("Movie")), Entry("_value", Num(1))>>),
     Obj(<<Entry("_type", Str("number")), Entry("_value", Num(1))>>),
     Obj(<<Entry("_type", Str("object")), Entry("_value", Obj(<<>>))>>),
     Obj(<<Entry("_type", Str("Date")), Entry("_value", ISOString(1))>>),
     Obj(<<Entry("_type", Undefined)>>)}
        \cup {Num(i) : i \in 0..MaxNum} \cup {DateOf(i) : i \in 0..MaxNum}

\* [type, value, includeUndefinedFields, pc, serialized, created]: a field of
\* a type, a value of it, and the value serialized and created again
FieldOf(type, value, includeUndefinedFields, at, serialized, created) ==
    [type |-> type, value |-> value,
     includeUndefinedFields |-> includeUndefinedFields,
     pc |-> at, serialized |-> serialized, created |-> created]

InitField ==
    field = FieldOf("", Undefined, FALSE, "", Value(Undefined), Value(Undefined))

\* field.serializeValue(value, {includeUndefinedFields})
SerializeValue ==
    /\ field.pc = "value"
    /\ field' = [field EXCEPT
                    !.pc = "serialized",
                    !.serialized = serializeValue(field.type, field.value,
                                                  field.includeUndefinedFields)]
    /\ UNCHANGED <<compileVars, storeVars, registrationVars, routed>>

\* field.createValue(serialized), when serializeValue has returned
CreateValue ==
    /\ field.pc = "serialized"
    /\ field.serialized.error = ""
    /\ field' = [field EXCEPT
                    !.pc = "created",
                    !.created = createValue(field.type, field.serialized.value)]
    /\ UNCHANGED <<compileVars, storeVars, registrationVars, routed>>


-----------------------------------------------------------------------------
(* Operators *)

AttributeOperators ==
    {"$equal", "$notEqual", "$greaterThan", "$greaterThanOrEqual",
     "$lessThan", "$lessThanOrEqual", "$in", "$notIn"}
QuantifierOperators == {"$some", "$every", "$not"}
LogicalOperators == {"$and", "$or", "$nor"}
Operators == AttributeOperators \cup QuantifierOperators \cup LogicalOperators

\* the names of the model that start with the operator marker '$'
DollarNames == Operators \cup {"$unknown"}

looksLikeOperator(name) == name \in DollarNames

\* [err, op]: the canonical token, or the unknown-operator error
normalizeOperatorForValue(operator, value) ==
    IF operator \in Operators
    THEN [err |-> "", op |-> operator]
    ELSE [err |-> "UnknownOperator", op |-> operator]

-----------------------------------------------------------------------------
(* Expressions.  [path, op, vk, plain, subs]: vk = "plain" carries a plain   *)
(* value, vk = "exprs" one nested expression list (subs[1]), vk = "lists" a  *)
(* list of expression lists (subs).                                          *)

PlainExpr(path, operator, value) ==
    [path |-> path, op |-> operator, vk |-> "plain", plain |-> value, subs |-> <<>>]
NestedExpr(path, operator, subexpressions) ==
    [path |-> path, op |-> operator, vk |-> "exprs", plain |-> Undefined,
     subs |-> <<subexpressions>>]
ListsExpr(path, operator, operatorExpressions) ==
    [path |-> path, op |-> operator, vk |-> "lists", plain |-> Undefined,
     subs |-> operatorExpressions]

\* outcome of a compilation step: the expression list so far, or the error thrown
Ok(expressions) == [err |-> "", exprs |-> expressions]
Throw(kind) == [err |-> kind, exprs |-> <<>>]

\* expressions.push(expression)
push_unshift(expressions, expression) == <<expression>> \o expressions
push(expressions, expression) == Append(expressions, expression)

\* const subpath = path !== '' ? `${path}.${name}` : name
subpathOf_leadingDot(path, name) == path \o "." \o name
subpathOf(path, name) == IF path # "" THEN path \o "." \o name ELSE name

\* operator === '$and' || operator === '$or' || operator === '$nor'
isRootOperator_any(operator) == TRUE
isRootOperator(operator) == operator \in {"$and", "$or", "$nor"}

\* the expression pushed for a value that is not a plain object
defaultExpression_in(subpath, value) ==
    PlainExpr(subpath, IF isArray(value) THEN "$in" ELSE "$equal", value)
defaultExpression(subpath, value) == PlainExpr(subpath, "$equal", value)

objectContainsAttributes(object) ==
    \E i \in 1..Len(object.kids) : ~looksLikeOperator(object.kids[i].k)
objectContainsOperators_never(object) == FALSE
objectContainsOperators(object) ==
    \E i \in 1..Len(object.kids) : looksLikeOperator(object.kids[i].k)

\* the path the value of $some / $every / $not and the elements of
\* $and / $or / $nor are handled at
subexpressionsPath_same(path) == path
subexpressionsPath(path) == ""

\* expressions.push([path, normalizedOperator, subexpressions])
pushSubexpressions_inline(expressions, path, normalizedOperator, subexpressions) ==
    Append(expressions \o subexpressions,
           NestedExpr(path, normalizedOperator, subexpressions))
pushSubexpressions(expressions, path, normalizedOperator, subexpressions) ==
    push(expressions, NestedExpr(path, normalizedOperator, subexpressions))

\* expressions.push([path, normalizedOperator, operatorExpressions])
pushOperatorExpressions(expressions, path, normalizedOperator, operatorExpressions) ==
    push(expressions, ListsExpr(path, normalizedOperator, operatorExpressions))

\* if (isPlainObject(value)) throw 'Unexpected object encountered in a query'
isUnexpectedObject_never(value) == FALSE
isUnexpectedObject(value) == isPlainObject(value)

RECURSIVE buildFrom(_, _, _, _), handleValue(_, _, _), handleOperator(_, _, _, _),
          handleOperators(_, _, _, _), mapHandleValue(_, _, _, _)

\* the loop of build over Object.entries(query), from entry i on
buildFrom(entries, i, expressions, path) ==
    IF i > Len(entries) THEN Ok(expressions)
    ELSE LET name == entries[i].k
             value == entries[i].v
         IN IF looksLikeOperator(name)
            THEN IF isRootOperator(name)
                 THEN LET r == handleOperator(name, value, expressions, path)
                      IN IF r.err # "" THEN r
                         ELSE buildFrom(entries, i + 1, r.exprs, path)
                 ELSE Throw("UnsupportedRootOperator")
            ELSE LET r == handleValue(value, expressions, subpathOf(path, name))
                 IN IF r.err # "" THEN r
                    ELSE buildFrom(entries, i + 1, r.exprs, path)

build(queryObject, expressions, path) ==
    buildFrom(queryObject.kids, 1, expressions, path)

handleValue(value, expressions, subpath) ==
    IF ~isPlainObject(value)
    THEN Ok(push(expressions, defaultExpression(subpath, value)))
    ELSE IF objectContainsAttributes(value)
         THEN IF objectContainsOperators(value)
              THEN Throw("InvalidQueryShape")
              ELSE build(value, expressions, subpath)
         ELSE IF objectContainsOperators(value)
              THEN handleOperators(value.kids, 1, expressions, subpath)
              ELSE Ok(expressions)

\* the loop of handleValue over Object.entries(operators), from entry i on
handleOperators(entries, i, expressions, subpath) ==
    IF i > Len(entries) THEN Ok(expressions)
    ELSE LET r == handleOperator(entries[i].k, entries[i].v, expressions, subpath)
         IN IF r.err # "" THEN r
            ELSE handleOperators(entries, i + 1, r.exprs, subpath)

\* values.map(value => handleValue(value, [], '')) from element i on:
\* the list of expression lists, or the first error
mapHandleValue(items, i, lists, path) ==
    IF i > Len(items) THEN Ok(lists)
    ELSE LET r == handleValue(items[i].v, <<>>, subexpressionsPath(path))
         IN IF r.err # "" THEN r
            ELSE mapHandleValue(items, i + 1, Append(lists, r.exprs), path)

handleOperator(operator, value, expressions, path) ==
    LET normalized == normalizeOperatorForValue(operator, value)
        normalizedOperator == normalized.op
    IN IF normalized.err # "" THEN Throw(normalized.err)
       ELSE IF normalizedOperator \in {"$some", "$every", "$not"}
       THEN LET r == handleValue(value, <<>>, subexpressionsPath(path))
            IN IF r.err # "" THEN r
               ELSE Ok(pushSubexpressions(expressions, path, normalizedOperator, r.exprs))
       ELSE IF normalizedOperator \in {"$and", "$or", "$nor"}
       THEN IF ~isArray(value) THEN Throw("TypeError")
            ELSE LET r == mapHandleValue(value.kids, 1, <<>>, path)
                 IN IF r.err # "" THEN r
                    ELSE Ok(pushOperatorExpressions(expressions, path,
                                                    normalizedOperator, r.exprs))
       ELSE IF isUnexpectedObject(value) THEN Throw("UnexpectedObjectValue")
       ELSE Ok(push(expressions, PlainExpr(path, normalizedOperator, value)))

toDocumentExpressions(queryObject) ==
    build(toDocument(queryObject), <<>>, "")

-----------------------------------------------------------------------------
(* The queries the compiler is run on: the mappings of one entry over         *)
(* QueryNames whose value is a leaf, a flat mapping, an array of small       *)
(* subqueries or a mapping nested one level deeper, and the mappings of two  *)
(* entries of which one is the leaf 1.                                       *)

QueryNames == {"a", "b", "$or", "$not", "$greaterThan", "$in", "$unknown"}

NumLeaves == {Num(i) : i \in 1..MaxNum}
Leaves == NumLeaves \cup {Arr(<<Item(Num(1))>>), UndefinedMarker}
SmallLeaves == {Num(1), Arr(<<Item(Num(1))>>)}

Singles(values) == {<<Entry(k, v)>> : k \in QueryNames, v \in values}
Pairs(values1, values2) ==
    {<<Entry(k1, v1), Entry(k2, v2)>> :
        k1 \in QueryNames, k2 \in QueryNames, v1 \in values1, v2 \in values2} \ 
    {<<Entry(k, v1), Entry(k, v2)>> : k \in QueryNames, v1 \in values1, v2 \in values2}

FlatMappings == {<<>>} \cup Singles(Leaves) \cup Pairs(SmallLeaves, SmallLeaves)

\* what the arrays given to a logical operator hold
Elements ==
    {Num(1), Obj(<<>>), Obj(<<Entry("a", Num(1))>>), Obj(<<Entry("b", Num(2))>>),
     Obj(<<Entry("$greaterThan", Num(1))>>),
     Obj(<<Entry("a", Num(1)), Entry("$greaterThan", Num(1))>>)}
RECURSIVE ArraysOf(_, _)
ArraysOf(elements, len) ==
    IF len = 0 THEN {<<>>}
    ELSE LET shorter == ArraysOf(elements, len - 1)
         IN shorter \cup {Append(s, Item(e)) : s \in shorter, e \in elements}
Arrays == {Arr(s) : s \in ArraysOf(Elements, MaxArrLen)}

ShortArrays == {Arr(s) : s \in ArraysOf(Elements, 1)}

Values1 == Leaves \cup {Obj(m) : m \in FlatMappings} \cup Arrays
\* the values that come with a second entry next to them
PairValues == Leaves \cup {Obj(m) : m \in FlatMappings} \cup ShortArrays
Mappings2 ==
    Singles(Values1) \cup Pairs(PairValues, {Num(1)}) \cup Pairs({Num(1)}, PairValues)
Mappings3 ==
    Singles({Obj(m) : m \in Singles({Obj(f) : f \in Singles(Leaves)} \cup Arrays)})

Queries == {Obj(m) : m \in {<<>>} \cup Mappings2 \cup Mappings3}

-----------------------------------------------------------------------------
(* The compiler as a state machine: a query is drawn, then compiled.         *)

InitStore ==
    /\ storables = {"Movie"}
    /\ trace = 0
    /\ traces = <<>>
    /\ calls = <<>>
    /\ backendLog = <<>>
    /\ InitRegistration
    /\ InitRoute

InitCompile ==
    /\ query \in Queries
    /\ pc = "ready"
    /\ result = Ok(<<>>)
    /\ InitStore
    /\ InitField

\* a call of toDocumentExpressions(storable, query)
Compile ==
    /\ pc = "ready"
    /\ pc' = "done"
    /\ result' = toDocumentExpressions(query)
    /\ UNCHANGED query
    /\ UNCHANGED storeVars
    /\ UNCHANGED otherVars

NextCompile == Compile

SpecCompile == InitCompile /\ [][NextCompile]_vars

-----------------------------------------------------------------------------
(* What the claims speak about: the query after toDocument, and the places   *)
(* of it that the compiler treats as values and as operators.                *)

documentQuery == toDocument(query)

Names(value) == {value.kids[i].k : i \in 1..Len(value.kids)}
hasAttributeName(value) == Names(value) \ DollarNames # {}
hasOperatorName(value) == Names(value) \cap DollarNames # {}
isMixed(value) == isPlainObject(value) /\ hasAttributeName(value) /\ hasOperatorName(value)
isAttributesOnly(value) ==
    isPlainObject(value) /\ hasAttributeName(value) /\ ~hasOperatorName(value)
isOperatorsOnly(value) ==
    isPlainObject(value) /\ ~hasAttributeName(value) /\ hasOperatorName(value)

RECURSIVE JoinDots(_)
JoinDots(chain) ==
    IF Len(chain) = 1 THEN chain[1] ELSE chain[1] \o "." \o JoinDots(Tail(chain))

RECURSIVE Flatten(_)
Flatten(seqs) == IF seqs = <<>> THEN <<>> ELSE Head(seqs) \o Flatten(Tail(seqs))

Range(seq) == {seq[i] : i \in 1..Len(seq)}

\* The places of a query, in key order.  A "value" place is a value met at a
\* path (under an attribute key, under $some / $every / $not, or as an element
\* of the array of $and / $or / $nor); an "op" place is an operator key met at a
\* path; a "rootop" place is an operator key of the root that is not a logical
\* one.  Nothing below a mixed mapping, an array value or a misplaced value is
\* a place.
Place(kind, path, name, value) == [kind |-> kind, path |-> path, name |-> name, value |-> value]

RECURSIVE ValuePlaces(_, _), OperatorPlaces(_, _, _)
ValuePlaces(value, path) ==
    <<Place("value", path, "", value)>> \o
    (IF isAttributesOnly(value)
     THEN Flatten([i \in 1..Len(value.kids) |->
              ValuePlaces(value.kids[i].v,
                          IF path = "" THEN value.kids[i].k
                          ELSE JoinDots(<<path, value.kids[i].k>>))])
     ELSE IF isOperatorsOnly(value)
     THEN Flatten([i \in 1..Len(value.kids) |->
              OperatorPlaces(value.kids[i].k, value.kids[i].v, path)])
     ELSE <<>>)
OperatorPlaces(name, value, path) ==
    <<Place("op", path, name, value)>> \o
    (IF name \in QuantifierOperators THEN ValuePlaces(value, "")
     ELSE IF name \in LogicalOperators /\ isArray(value)
     THEN Flatten([i \in 1..Len(value.kids) |-> ValuePlaces(value.kids[i].v, "")])
     ELSE <<>>)

RootPlaces(root) ==
    Flatten([i \in 1..Len(root.kids) |->
        LET name == root.kids[i].k
            value == root.kids[i].v
        IN IF name \in LogicalOperators THEN OperatorPlaces(name, value, "")
           ELSE IF looksLikeOperator(name) THEN <<Place("rootop", "", name, value)>>
           ELSE ValuePlaces(value, name)])

Places == RootPlaces(documentQuery)

\* every expression of a compiled list, the nested ones included
RECURSIVE AllExpressions(_)
AllExpressions(expressions) ==
    Flatten([i \in 1..Len(expressions) |->
        <<expressions[i]>> \o
        Flatten([j \in 1..Len(expressions[i].subs) |->
                    AllExpressions(expressions[i].subs[j])])])

\* an enclosing list that already holds an expression
Enclosing == <<PlainExpr("z", "$equal", Num(1))>>

Done == pc = "done"
Compiled == pc = "done" /\ result.err = ""

-----------------------------------------------------------------------------
(* Query compiler: shape validation *)

\* what is wrong at a place, "" when nothing is
Defect(place) ==
    IF place.kind = "rootop" THEN "rootop"
    ELSE IF place.kind = "value" THEN (IF isMixed(place.value) THEN "mixed" ELSE "")
    ELSE IF place.name \notin Operators THEN "unknown"
    ELSE IF place.name \in LogicalOperators
         THEN (IF isArray(place.value) THEN "" ELSE "notArray")
    ELSE IF place.name \in QuantifierOperators THEN ""
    ELSE IF isPlainObject(place.value) THEN "object" ELSE ""
Defects == {Defect(place) : place \in Range(Places)} \ {""}

\* C1 (as amended): a mapping below the root that holds both an attribute key
\* and an operator key makes toDocumentExpressions fail and return no
\* expression list; the failure is the invalid-query-shape error when that is
\* the only thing wrong with the query, and that error is raised for nothing
\* else.  A root mapping that mixes attribute keys with $and / $or / $nor is
\* not rejected for it.
C1_MixedSubqueryRejected ==
    Done =>
        /\ ("mixed" \in Defects => result.err # "" /\ result.exprs = <<>>)
        /\ (Defects = {"mixed"} => result.err = "InvalidQueryShape")
        /\ (result.err = "InvalidQueryShape" => "mixed" \in Defects)
        /\ (isMixed(documentQuery) /\ Defects = {} => result.err = "")

C1_Witness ==
    /\ Done
    /\ Defects = {"mixed"}
    /\ result.err = "InvalidQueryShape"
    /\ \E place \in Range(Places) : isMixed(place.value) /\ place.path = "a"

\* C1 as stated: a mixed mapping at any level, the root included, gives the
\* invalid-query-shape error.
C1_Original ==
    Done /\ (isMixed(documentQuery) \/ "mixed" \in Defects)
        => result.err = "InvalidQueryShape"

-----------------------------------------------------------------------------
(* Query compiler: values without an operator *)

\* the values without an operator reached from the root through attribute
\* keys only, each with its chain of keys, in key order
RECURSIVE LeafChains(_, _)
LeafChains(value, chain) ==
    IF ~isPlainObject(value) THEN <<[chain |-> chain, value |-> value]>>
    ELSE IF isAttributesOnly(value)
    THEN Flatten([i \in 1..Len(value.kids) |->
             LeafChains(value.kids[i].v, Append(chain, value.kids[i].k))])
    ELSE <<>>
TopLeaves ==
    Flatten([i \in 1..Len(documentQuery.kids) |->
        IF documentQuery.kids[i].k \in DollarNames THEN <<>>
        ELSE LeafChains(documentQuery.kids[i].v, <<documentQuery.kids[i].k>>)])

RECURSIVE isAttributesOnlyDeep(_)
isAttributesOnlyDeep(value) ==
    /\ isPlainObject(value)
    /\ ~hasOperatorName(value)
    /\ \A i \in 1..Len(value.kids) :
           isPlainObject(value.kids[i].v) => isAttributesOnlyDeep(value.kids[i].v)

\* C3: a query with attribute keys only, at every level, compiles to exactly
\* one expression per non-mapping leaf, in key order, whose path is the chain
\* of keys joined with '.' and whose value is the leaf.
C3_OneExpressionPerLeaf ==
    Done /\ isAttributesOnlyDeep(documentQuery) =>
        /\ result.err = ""
        /\ Len(result.exprs) = Len(TopLeaves)
        /\ \A i \in 1..Len(TopLeaves) :
               /\ result.exprs[i].path = JoinDots(TopLeaves[i].chain)
               /\ result.exprs[i].vk = "plain"
               /\ result.exprs[i].plain = TopLeaves[i].value

C3_Witness ==
    /\ Done
    /\ isAttributesOnlyDeep(documentQuery)
    /\ \E i \in 1..Len(result.exprs) : result.exprs[i].path = "a.b.a"

-----------------------------------------------------------------------------
(* Query compiler: operators at the root *)

isUnsupportedAtRoot(name) == name \in DollarNames \ LogicalOperators
UnsupportedRootIndexes ==
    {i \in 1..Len(query.kids) : isUnsupportedAtRoot(query.kids[i].k)}
FirstUnsupportedRootIndex ==
    CHOOSE i \in UnsupportedRootIndexes : \A j \in UnsupportedRootIndexes : i <= j

\* C4 (as amended): a query whose root has an operator key other than $and,
\* $or and $nor fails; the error is the unsupported-root-operator error unless
\* the keys before the first such key already fail, and then it is their
\* error.  The unsupported-root-operator error is raised for no other key.
C4_UnsupportedRootOperator ==
    Done =>
        /\ UnsupportedRootIndexes # {} =>
               LET before == toDocumentExpressions(
                                 Obj(SubSeq(query.kids, 1, FirstUnsupportedRootIndex - 1)))
               IN /\ result.exprs = <<>>
                  /\ result.err = IF before.err = "" THEN "UnsupportedRootOperator"
                                  ELSE before.err
        /\ result.err = "UnsupportedRootOperator" => UnsupportedRootIndexes # {}

C4_Witness ==
    /\ Done
    /\ Len(query.kids) = 2
    /\ UnsupportedRootIndexes = {2}
    /\ result.err = "UnsupportedRootOperator"

\* C4 as stated: such a query fails with the unsupported-root-operator error.
C4_Original ==
    Done /\ UnsupportedRootIndexes # {} => result.err = "UnsupportedRootOperator"

-----------------------------------------------------------------------------
(* Query compiler: operators *)

OperatorPlacesOf(operators) ==
    {place \in Range(Places) : place.kind = "op" /\ place.name \in operators}
CountPlaces(operators) ==
    Cardinality({i \in 1..Len(Places) :
        Places[i].kind = "op" /\ Places[i].name \in operators})
CountExpressions(operators) ==
    LET all == AllExpressions(result.exprs)
    IN Cardinality({i \in 1..Len(all) : all[i].op \in operators})

\* element i of an array value compiled on its own, from the empty path
CompiledAlone(value) == handleValue(value, <<>>, "")

\* C5: $and / $or / $nor met at path p with an array of n elements emits
\* exactly one expression (p, operator, L), L holding in array order the n
\* expression lists of the elements compiled on their own from the empty path;
\* a value that is not an array is rejected.
C5_LogicalOperator ==
    /\ Done =>
           \A place \in OperatorPlacesOf(LogicalOperators) :
               LET r == handleOperator(place.name, place.value, Enclosing, place.path)
                   items == place.value.kids
               IN IF ~isArray(place.value) THEN r.err # "" /\ r.exprs = <<>>
                  ELSE IF \E i \in 1..Len(items) : CompiledAlone(items[i].v).err # ""
                  THEN r.err # ""
                  ELSE /\ r.err = ""
                       /\ Len(r.exprs) = Len(Enclosing) + 1
                       /\ SubSeq(r.exprs, 1, Len(Enclosing)) = Enclosing
                       /\ LET e == r.exprs[Len(r.exprs)]
                          IN /\ e.path = place.path
                             /\ e.op = place.name
                             /\ e.vk = "lists"
                             /\ Len(e.subs) = Len(items)
                             /\ \A i \in 1..Len(items) :
                                    /\ e.subs[i] = CompiledAlone(items[i].v).exprs
                                    /\ isAttributesOnly(items[i].v) =>
                                           e.subs[i] = toDocumentExpressions(items[i].v).exprs
    /\ Compiled => CountExpressions(LogicalOperators) = CountPlaces(LogicalOperators)

C5_Witness ==
    /\ Compiled
    /\ \E i \in 1..Len(result.exprs) :
           /\ result.exprs[i].path = "a"
           /\ result.exprs[i].op = "$or"
           /\ Len(result.exprs[i].subs) = 2
           /\ result.exprs[i].subs[1] = <<PlainExpr("a", "$equal", Num(1))>>
           /\ result.exprs[i].subs[2] = <<PlainExpr("b", "$equal", Num(2))>>

\* C6: $some / $every / $not met at path p with value v appends exactly one
\* expression (p, operator, N) to the enclosing list, N being v compiled on its
\* own from the empty path; no expression of N goes to the enclosing list.
C6_QuantifierOperator ==
    /\ Done =>
           \A place \in OperatorPlacesOf(QuantifierOperators) :
               LET r == handleOperator(place.name, place.value, Enclosing, place.path)
                   alone == CompiledAlone(place.value)
               IN IF alone.err # "" THEN r.err = alone.err
                  ELSE r = Ok(Enclosing \o
                              <<NestedExpr(place.path, place.name, alone.exprs)>>)
    /\ Compiled => CountExpressions(QuantifierOperators) = CountPlaces(QuantifierOperators)
    /\ Compiled =>
           \A i \in 1..Len(documentQuery.kids) :
               LET entry == documentQuery.kids[i]
               IN Len(documentQuery.kids) = 1 /\ isOperatorsOnly(entry.v)
                  /\ Names(entry.v) \subseteq QuantifierOperators
                      => /\ Len(result.exprs) = Len(entry.v.kids)
                         /\ \A j \in 1..Len(result.exprs) :
                                /\ result.exprs[j].path = entry.k
                                /\ result.exprs[j].vk = "exprs"

C6_Witness ==
    /\ Compiled
    /\ result.exprs = <<NestedExpr("a", "$not", <<PlainExpr("b", "$equal", Num(1))>>)>>

\* C7: any other operator met at path p fails with the unexpected-object error
\* when its value is a plain mapping, and otherwise emits exactly one
\* expression (p, operator, value); a mapping of k such operators at path p
\* yields k expressions, all with path p.
C7_AttributeOperator ==
    /\ Done =>
           \A place \in OperatorPlacesOf(AttributeOperators) :
               LET r == handleOperator(place.name, place.value, Enclosing, place.path)
               IN IF isPlainObject(place.value)
                  THEN r = Throw("UnexpectedObjectValue")
                  ELSE r = Ok(Enclosing \o
                              <<PlainExpr(place.path, place.name, place.value)>>)
    /\ Done =>
           \A place \in Range(Places) :
               /\ place.kind = "value"
               /\ isOperatorsOnly(place.value)
               /\ Names(place.value) \subseteq AttributeOperators
               /\ \A i \in 1..Len(place.value.kids) : ~isPlainObject(place.value.kids[i].v)
               => LET r == handleValue(place.value, <<>>, place.path)
                  IN /\ r.err = ""
                     /\ Len(r.exprs) = Len(place.value.kids)
                     /\ \A i \in 1..Len(r.exprs) :
                            r.exprs[i] = PlainExpr(place.path, place.value.kids[i].k,
                                                   place.value.kids[i].v)
    /\ Compiled => CountExpressions(AttributeOperators \ {"$equal"})
                       = CountPlaces(AttributeOperators \ {"$equal"})

C7_Witness ==
    /\ Compiled
    /\ result.exprs = <<PlainExpr("a", "$greaterThan", Num(1)), PlainExpr("a", "$in", Num(1))>>

-----------------------------------------------------------------------------
(* Query compiler: order *)

\* the entries of a mapping compiled one by one at the same path, joined in
\* key order; <<>> when one of them fails
EntryByEntry(value, path) ==
    Flatten([i \in 1..Len(value.kids) |->
        handleValue(Obj(<<value.kids[i]>>), <<>>, path).exprs])
RootEntryByEntry ==
    Flatten([i \in 1..Len(query.kids) |->
        toDocumentExpressions(Obj(<<query.kids[i]>>)).exprs])

\* C8: the expressions follow the key order of the query: what a mapping
\* compiles to is what its first key compiles to, then what its second key
\* compiles to, and so on, at the root and at every mapping below it.
C8_KeyOrder ==
    /\ Compiled => result.exprs = RootEntryByEntry
    /\ Done =>
           \A place \in Range(Places) :
               place.kind = "value" /\ isPlainObject(place.value) =>
                   LET r == handleValue(place.value, <<>>, place.path)
                   IN r.err = "" => r.exprs = EntryByEntry(place.value, place.path)

C8_Witness ==
    /\ Compiled
    /\ Len(documentQuery.kids) = 2
    /\ isAttributesOnly(documentQuery.kids[1].v)
    /\ Len(documentQuery.kids[1].v.kids) = 2
    /\ Len(result.exprs) = 3
    /\ result.exprs[3].path = documentQuery.kids[2].k

-----------------------------------------------------------------------------
(* The document operations of the store.  A call runs synchronously up to    *)
(* the abstract document operation it awaits (or up to the error it throws   *)
(* before), and is settled later, when that operation has answered.          *)

StorableTypes == {"Movie", "Ghost"}
Options == {"unset", "true", "false"}
\* the options tried with a storable type: all of them with a registered type,
\* the defaults with one that is not registered
OptionsFor(type) == IF type = "Movie" THEN Options ELSE {"unset"}

\* the queries given to find and count: empty, well formed, and ill formed
\* (mixed keys, unsupported root operator, unexpected object value)
StoreQueries ==
    <<Obj(<<>>),
      Obj(<<Entry("a", Num(1))>>),
      Obj(<<Entry("a", Obj(<<Entry("b", Num(1)), Entry("$in", Num(1))>>))>>),
      Obj(<<Entry("$greaterThan", Num(1))>>),
      Obj(<<Entry("a", Obj(<<Entry("$greaterThan",
                                   Obj(<<Entry("b", Num(1))>>))>>))>>)>>
\* this.toDocumentExpressions(storable, query), for each of these queries
StoreExpressions ==
    [q \in 1..Len(StoreQueries) |-> toDocumentExpressions(StoreQueries[q])]
\* the queries tried with a storable type: all of them with a registered type,
\* the empty one with one that is not registered
QueriesFor(type) == IF type = "Movie" THEN 1..Len(StoreQueries) ELSE {1}

\* the serialized storables given to save: all attributes set, an attribute
\* set to undefined, an attribute set to undefined inside a nested mapping
SerializedStorables ==
    <<Obj(<<Entry("__component", Str("Movie")), Entry("id", Num(1)),
            Entry("title", Num(2))>>),
      Obj(<<Entry("__component", Str("Movie")), Entry("id", Num(1)),
            Entry("title", UndefinedMarker)>>),
      Obj(<<Entry("__component", Str("Movie")), Entry("id", Num(1)),
            Entry("details", Obj(<<Entry("year", Num(2)),
                                   Entry("title", UndefinedMarker)>>))>>)>>

\* the attribute selectors given to load and find: none, everything, nothing,
\* no attribute, one attribute, an array of names
AttributeSelectors ==
    {Undefined, Bool(1), Bool(0), Obj(<<>>),
     Obj(<<Entry("title", Bool(1))>>), Obj(<<Entry("id", Bool(1))>>),
     Arr(<<Item(Str("title"))>>)}

\* const {option = default} = options
optionOr(option, default) == IF option = "unset" THEN default ELSE option = "true"

\* getStorableOfType(storableType): "" or the error thrown
getStorableOfType(type) == IF type \in storables THEN "" ELSE "NotRegistered"

\* returned names what is returned, documents lists the serialized storables
\* among it
ReturnsStorables(value, serializedStorables) ==
    [error |-> "", returned |-> value, documents |-> serializedStorables]
Returns(value) == ReturnsStorables(value, <<>>)
Raises(code) == [error |-> code, returned |-> "", documents |-> <<>>]
BackendError == "BackendError"

Call(method, operation, type, isNew, throwIfMissing, throwIfExists, q) ==
    [method |-> method, operation |-> operation, storableType |-> type,
     isNew |-> isNew, throwIfMissing |-> throwIfMissing,
     throwIfExists |-> throwIfExists, q |-> q,
     attributeSelector |-> Undefined, serializedStorable |-> Undefined,
     trace |-> 0, status |-> "pending", backend |-> "", answer |-> "",
     error |-> "", returned |-> "", documents |-> <<>>]

\* _runOperation up to `await func()`: the current trace is captured, func
\* runs to the document operation it invokes (started = [backend, error])
runOperation(limit, call, started) ==
    /\ Len(calls) < limit
    /\ calls' = Append(calls,
                   [call EXCEPT !.trace = trace,
                                !.backend = started.backend,
                                !.error = started.error,
                                !.status = IF started.error # "" THEN "rejected"
                                           ELSE "pending"])
    /\ backendLog' = IF started.backend = "" THEN backendLog
                     ELSE Append(backendLog,
                                 [call |-> Len(calls) + 1, op |-> started.backend,
                                  document |-> started.document,
                                  documentPatch |-> started.documentPatch])
    /\ UNCHANGED <<storables, trace, traces>>
    /\ UNCHANGED compileVars
    /\ UNCHANGED otherVars

\* the document operation invoked, with the document or the patch handed to it
InvokesWith(backend, document, documentPatch) ==
    [backend |-> backend, error |-> "",
     document |-> document, documentPatch |-> documentPatch]
Invokes(backend) == InvokesWith(backend, Undefined, NoDocumentPatch)
FailsWith(error) ==
    [backend |-> "", error |-> error,
     document |-> Undefined, documentPatch |-> NoDocumentPatch]

\* const {attributeSelector = true} = options
attributeSelectorOr(attributeSelector, default) ==
    IF attributeSelector = Undefined THEN default ELSE attributeSelector

\* what the store holds, and what readDocument / findDocuments resolve to
StoredDocuments ==
    <<Obj(<<Entry("__component", Str("Movie")), Entry("id", Num(1)),
            Entry("title", Num(2))>>),
      Obj(<<Entry("__component", Str("Movie")), Entry("id", Num(2)),
            Entry("title", Undefined)>>)>>

\* load, up to `await this.readDocument(...)`
loadStart(type) ==
    IF getStorableOfType(type) # "" THEN FailsWith(getStorableOfType(type))
    ELSE Invokes("readDocument")

\* load, from the answer of readDocument on
picked_selectedOnly(document, documentAttributeSelector) ==
    fromDocument(pickFromAttributeSelector(document, documentAttributeSelector, {}))
picked(document, documentAttributeSelector) ==
    fromDocument(pickFromAttributeSelector(document, documentAttributeSelector,
                                           {"__component"}))

loadEnd_alwaysThrow(document, documentAttributeSelector, throwIfMissing) ==
    IF document # Undefined
    THEN ReturnsStorables("serializedStorable",
                          <<picked(document, documentAttributeSelector)>>)
    ELSE Raises("COMPONENT_IS_MISSING_FROM_STORE")
loadEnd(document, documentAttributeSelector, throwIfMissing) ==
    IF document # Undefined
    THEN ReturnsStorables("serializedStorable",
                          <<picked(document, documentAttributeSelector)>>)
    ELSE IF ~throwIfMissing THEN Returns("undefined")
    ELSE Raises("COMPONENT_IS_MISSING_FROM_STORE")

\* save, up to `await this.createDocument(...)` / `await this.updateDocument(...)`
saveDocument(document, isNew) ==
    IF isNew
    THEN InvokesWith("createDocument", deleteUndefinedProperties(document),
                     NoDocumentPatch)
    ELSE InvokesWith("updateDocument", Undefined, buildDocumentPatch(document))

saveStart_unchecked(type, serializedStorable, isNew, throwIfMissing, throwIfExists) ==
    IF getStorableOfType(type) # "" THEN FailsWith(getStorableOfType(type))
    ELSE saveDocument(toDocument(serializedStorable), isNew)
saveStart(type, serializedStorable, isNew, throwIfMissing, throwIfExists) ==
    IF throwIfMissing /\ throwIfExists THEN FailsWith("OptionsBothTrue")
    ELSE IF getStorableOfType(type) # "" THEN FailsWith(getStorableOfType(type))
    ELSE saveDocument(toDocument(serializedStorable), isNew)

\* save, from the answer of createDocument / updateDocument on
saveEnd_overwrite(wasSaved, throwIfMissing, throwIfExists) ==
    IF ~wasSaved /\ throwIfMissing THEN Raises("COMPONENT_IS_MISSING_FROM_STORE")
    ELSE Returns(IF wasSaved THEN "true" ELSE "false")
saveEnd(wasSaved, throwIfMissing, throwIfExists) ==
    IF ~wasSaved /\ throwIfMissing THEN Raises("COMPONENT_IS_MISSING_FROM_STORE")
    ELSE IF ~wasSaved /\ throwIfExists THEN Raises("COMPONENT_ALREADY_EXISTS_IN_STORE")
    ELSE Returns(IF wasSaved THEN "true" ELSE "false")

\* delete, up to `await this.deleteDocument(...)`
deleteStart(type) ==
    IF getStorableOfType(type) # "" THEN FailsWith(getStorableOfType(type))
    ELSE Invokes("deleteDocument")

\* delete, from the answer of deleteDocument on
deleteEnd(wasDeleted, throwIfMissing) ==
    IF ~wasDeleted /\ throwIfMissing THEN Raises("COMPONENT_IS_MISSING_FROM_STORE")
    ELSE Returns(IF wasDeleted THEN "true" ELSE "false")

\* find, from the answer of findDocuments on
findEnd(documents, documentAttributeSelector) ==
    ReturnsStorables("serializedStorables",
                     [i \in 1..Len(documents) |->
                         picked(documents[i], documentAttributeSelector)])

\* find, up to `await this.findDocuments(...)`
findStart_uncompiled(type, q) ==
    IF getStorableOfType(type) # "" THEN FailsWith(getStorableOfType(type))
    ELSE Invokes("findDocuments")
findStart(type, q) ==
    IF getStorableOfType(type) # "" THEN FailsWith(getStorableOfType(type))
    ELSE IF StoreExpressions[q].err # ""
    THEN FailsWith(StoreExpressions[q].err)
    ELSE Invokes("findDocuments")

\* count, up to `await this.countDocuments(...)`
countStart(type, q) ==
    IF getStorableOfType(type) # "" THEN FailsWith(getStorableOfType(type))
    ELSE IF StoreExpressions[q].err # ""
    THEN FailsWith(StoreExpressions[q].err)
    ELSE Invokes("countDocuments")

loadWithin(limit, type, attributeSelector, throwIfMissing) ==
    runOperation(limit,
                 [Call("load", "load", type, "unset", throwIfMissing, "unset", 0)
                      EXCEPT !.attributeSelector = attributeSelector],
                 loadStart(type))

load ==
    \E type \in StorableTypes : \E throwIfMissing \in OptionsFor(type) :
        loadWithin(MaxCalls, type, Undefined, throwIfMissing)

saveWithin(limit, type, serializedStorable, isNew, throwIfMissing, throwIfExists) ==
    runOperation(limit,
                 [Call("save", "save", type, isNew, throwIfMissing, throwIfExists, 0)
                      EXCEPT !.serializedStorable = serializedStorable],
                 saveStart(type, serializedStorable, optionOr(isNew, FALSE),
                           optionOr(throwIfMissing, ~optionOr(isNew, FALSE)),
                           optionOr(throwIfExists, optionOr(isNew, FALSE))))

save ==
    \E type \in StorableTypes : \E isNew \in OptionsFor(type),
       throwIfMissing \in OptionsFor(type), throwIfExists \in OptionsFor(type) :
        saveWithin(MaxCalls, type, SerializedStorables[1],
                   isNew, throwIfMissing, throwIfExists)

deleteWithin(limit, type, throwIfMissing) ==
    runOperation(limit,
                 Call("delete", "delete", type, "unset", throwIfMissing, "unset", 0),
                 deleteStart(type))

delete ==
    \E type \in StorableTypes : \E throwIfMissing \in OptionsFor(type) :
        deleteWithin(MaxCalls, type, throwIfMissing)

findWithin(limit, type, q, attributeSelector) ==
    runOperation(limit,
                 [Call("find", "find", type, "unset", "unset", "unset", q)
                      EXCEPT !.attributeSelector = attributeSelector],
                 findStart(type, q))

find ==
    \E type \in StorableTypes : \E q \in QueriesFor(type) :
        findWithin(MaxCalls, type, q, Undefined)

countWithin(limit, type, q) ==
    runOperation(limit,
                 Call("count", "find", type, "unset", "unset", "unset", q),
                 countStart(type, q))

count ==
    \E type \in StorableTypes : \E q \in QueriesFor(type) :
        countWithin(MaxCalls, type, q)

\* what an abstract document operation may answer ("throw": it rejects)
Answers(backend) ==
    IF backend = "readDocument" THEN {"document", "undefined", "throw"}
    ELSE IF backend = "findDocuments" THEN {"documents", "throw"}
    ELSE IF backend = "countDocuments" THEN {"documentsCount", "throw"}
    ELSE {"true", "false", "throw"}

\* toDocument(storable, normalizeAttributeSelector(attributeSelector))
documentAttributeSelector(attributeSelector) ==
    toDocument(normalizeAttributeSelector(
                   attributeSelectorOr(attributeSelector, Bool(1))))

\* the rest of func once the document operation has answered
funcEnd(call, answer) ==
    IF answer = "throw" THEN Raises(BackendError)
    ELSE IF call.method = "load"
    THEN loadEnd(IF answer = "document" THEN StoredDocuments[1] ELSE Undefined,
                 documentAttributeSelector(call.attributeSelector),
                 optionOr(call.throwIfMissing, TRUE))
    ELSE IF call.method = "save"
    THEN saveEnd(answer = "true",
                 optionOr(call.throwIfMissing, ~optionOr(call.isNew, FALSE)),
                 optionOr(call.throwIfExists, optionOr(call.isNew, FALSE)))
    ELSE IF call.method = "delete"
    THEN deleteEnd(answer = "true", optionOr(call.throwIfMissing, TRUE))
    ELSE IF call.method = "find"
    THEN findEnd(StoredDocuments, documentAttributeSelector(call.attributeSelector))
    ELSE Returns(answer)

\* {operation, params, options, result} / {operation, params, options, error}
TraceEntry_resultOnly(operation, call, outcome) ==
    [operation |-> operation, call |-> call,
     result |-> outcome.returned, error |-> ""]
TraceEntry(operation, call, outcome) ==
    [operation |-> operation, call |-> call,
     result |-> outcome.returned, error |-> outcome.error]

\* trace.push(entry)
pushEntry_unshift(entries, entry) == <<entry>> \o entries
pushEntry_reset(entries, entry) == <<entry>>
pushEntry(entries, entry) == Append(entries, entry)

\* throw error ("": nothing was thrown)
rethrown_wrapped(error) == IF error = "" THEN "" ELSE "StoreError"
rethrown(error) == error

\* const trace = this._trace, as it was when the operation was called
capturedTrace_current(call) == trace
capturedTrace(call) == call.trace

\* _runOperation from `await func()` on: the entry is pushed to the trace
\* captured at the call, then the result is returned or the error rethrown
settleWith(i, answer, outcome) ==
    /\ calls' = [calls EXCEPT ![i] = [@ EXCEPT !.status = "done",
                                               !.answer = answer,
                                               !.error = rethrown(outcome.error),
                                               !.returned = outcome.returned,
                                               !.documents = outcome.documents]]
    /\ traces' = IF capturedTrace(calls[i]) # 0
                 THEN [traces EXCEPT ![capturedTrace(calls[i])] =
                          pushEntry(@, TraceEntry(calls[i].operation, i, outcome))]
                 ELSE traces
    /\ UNCHANGED <<storables, trace, backendLog>>
    /\ UNCHANGED compileVars
    /\ UNCHANGED otherVars

\* the awaited document operation answers
Settle ==
    \E i \in 1..Len(calls) :
        /\ calls[i].status = "pending"
        /\ \E answer \in Answers(calls[i].backend) :
               settleWith(i, answer, funcEnd(calls[i], answer))

\* func threw before awaiting anything: the rejection reaches the catch
Reject ==
    \E i \in 1..Len(calls) :
        /\ calls[i].status = "rejected"
        /\ settleWith(i, "", Raises(calls[i].error))

\* what getTrace() gives: [error, entries]
Traced(error, entries) == [error |-> error, entries |-> entries]
getTrace ==
    IF trace = 0 THEN Traced("NotCurrentlyTracing", <<>>)
    ELSE Traced("", traces[trace])

\* this._trace = []
startTraceWithin_resuming(limit) ==
    /\ Len(traces) < limit
    /\ traces' = Append(traces, getTrace.entries)
    /\ trace' = Len(traces) + 1
    /\ UNCHANGED <<storables, calls, backendLog>>
    /\ UNCHANGED compileVars
    /\ UNCHANGED otherVars
startTraceWithin(limit) ==
    /\ Len(traces) < limit
    /\ traces' = Append(traces, <<>>)
    /\ trace' = Len(traces) + 1
    /\ UNCHANGED <<storables, calls, backendLog>>
    /\ UNCHANGED compileVars
    /\ UNCHANGED otherVars

startTrace == startTraceWithin(MaxTraces)

stopTrace ==
    /\ trace # 0
    /\ trace' = 0
    /\ UNCHANGED <<storables, traces, calls, backendLog>>
    /\ UNCHANGED compileVars
    /\ UNCHANGED otherVars

InitOperations ==
    /\ query = Obj(<<>>)
    /\ pc = "ready"
    /\ result = Ok(<<>>)
    /\ InitStore
    /\ InitField

NextOperations ==
    \/ load
    \/ save
    \/ delete
    \/ find
    \/ count
    \/ Settle
    \/ Reject
    \/ startTraceWithin(MaxOperationTraces)
    \/ stopTrace

SpecOperations == InitOperations /\ [][NextOperations]_vars

(* Calls in flight together: the operations are called with their default   *)
(* options on the registered storable type, several of them before the      *)
(* document operation of the first has answered.                            *)

tracedLoad == loadWithin(MaxTracedCalls, "Movie", Undefined, "unset")

tracedSave ==
    saveWithin(MaxTracedCalls, "Movie", SerializedStorables[1],
               "unset", "unset", "unset")

tracedDelete == deleteWithin(MaxTracedCalls, "Movie", "false")

tracedFind == findWithin(MaxTracedCalls, "Movie", 2, Undefined)

tracedCount == \E q \in {1, 3} : countWithin(MaxTracedCalls, "Movie", q)

NextTracing ==
    \/ tracedLoad
    \/ tracedSave
    \/ tracedDelete
    \/ tracedFind
    \/ tracedCount
    \/ Settle
    \/ Reject
    \/ startTrace
    \/ stopTrace

SpecTracing == InitOperations /\ [][NextTracing]_vars

(* Documents: load and find are called with the attribute selectors, save    *)
(* with the serialized storables, the other options being left alone.        *)

\* the serialized storables saved with a storable type: all of them with a
\* registered type, the first with one that is not registered
StorablesFor(type) ==
    IF type = "Movie" THEN 1..Len(SerializedStorables) ELSE {1}

selectingLoad ==
    \E attributeSelector \in AttributeSelectors :
        loadWithin(MaxCalls, "Movie", attributeSelector, "unset")

selectingFind ==
    \E attributeSelector \in AttributeSelectors :
        findWithin(MaxCalls, "Movie", 1, attributeSelector)

storingSave ==
    \E type \in StorableTypes : \E s \in StorablesFor(type) :
        \E isNew \in OptionsFor(type), throwIfExists \in {"unset", "false"} :
            saveWithin(MaxCalls, type, SerializedStorables[s],
                       isNew, "unset", throwIfExists)

NextDocuments ==
    \/ selectingLoad
    \/ selectingFind
    \/ storingSave
    \/ Settle
    \/ Reject
    \/ startTraceWithin(MaxOperationTraces)
    \/ stopTrace

SpecDocuments == InitOperations /\ [][NextDocuments]_vars

(* Registration: storables and root components are registered in the stores. *)

NextRegistration ==
    \/ RegisterStorable
    \/ RegisterRootComponent

SpecRegistration == InitOperations /\ [][NextRegistration]_vars

(* Routes: the decorated method is read, routers become available.           *)

NextRoute ==
    \/ Read
    \/ RouterAvailable

SpecRoute == InitOperations /\ [][NextRoute]_vars

(* Fields: a field and a value are drawn, the value is serialized, and the   *)
(* serialized value is made a value of the field again.                      *)

InitFieldValues ==
    /\ query = Obj(<<>>)
    /\ pc = "ready"
    /\ result = Ok(<<>>)
    /\ InitStore
    /\ field \in {FieldOf(type, value, includeUndefinedFields, "value",
                           Value(Undefined), Value(Undefined)) :
                       type \in BuiltInTypes, value \in FieldValues,
                       includeUndefinedFields \in BOOLEAN}

NextField ==
    \/ SerializeValue
    \/ CreateValue

SpecField == InitFieldValues /\ [][NextField]_vars

-----------------------------------------------------------------------------
(* Document operations: domain errors *)

Settled(i) == calls[i].status = "done"
Invoked(i, backend) ==
    \E j \in 1..Len(backendLog) : backendLog[j].call = i /\ backendLog[j].op = backend

\* a save of a new component that createDocument answered with false
isRefusedCreate(i) ==
    /\ Settled(i)
    /\ calls[i].method = "save"
    /\ calls[i].isNew = "true"
    /\ calls[i].backend = "createDocument"
    /\ calls[i].answer = "false"

\* C9 (as amended): save with isNew=true and throwIfExists not set to false,
\* when createDocument returns false, fails with the code
\* COMPONENT_ALREADY_EXISTS_IN_STORE and does not return normally; no save with
\* isNew=true calls updateDocument.
C9_SaveNewAlreadyExists ==
    \A i \in 1..Len(calls) :
        /\ isRefusedCreate(i) /\ calls[i].throwIfExists # "false" =>
               /\ calls[i].error = "COMPONENT_ALREADY_EXISTS_IN_STORE"
               /\ calls[i].returned = ""
        /\ calls[i].method = "save" /\ calls[i].isNew = "true" =>
               ~Invoked(i, "updateDocument")

C9_Witness ==
    \E i \in 1..Len(calls) :
        /\ isRefusedCreate(i)
        /\ calls[i].throwIfExists = "unset"
        /\ calls[i].error = "COMPONENT_ALREADY_EXISTS_IN_STORE"
        /\ Invoked(i, "createDocument")

\* C9 as stated: whatever the options, such a save fails with
\* COMPONENT_ALREADY_EXISTS_IN_STORE.
C9_Original ==
    \A i \in 1..Len(calls) :
        isRefusedCreate(i) =>
            /\ calls[i].error = "COMPONENT_ALREADY_EXISTS_IN_STORE"
            /\ calls[i].returned = ""
            /\ ~Invoked(i, "updateDocument")

\* a load / delete that the document operation answered with absence
isAbsent(i) ==
    /\ Settled(i)
    /\ \/ calls[i].method = "load" /\ calls[i].backend = "readDocument"
          /\ calls[i].answer = "undefined"
       \/ calls[i].method = "delete" /\ calls[i].backend = "deleteDocument"
          /\ calls[i].answer = "false"

\* C10: when the backend reports absence, load and delete with default options
\* fail with the code COMPONENT_IS_MISSING_FROM_STORE; with
\* throwIfMissing=false load returns undefined and delete returns false.
C10_MissingFromStore ==
    \A i \in 1..Len(calls) :
        isAbsent(i) =>
            /\ calls[i].throwIfMissing = "unset" =>
                   /\ calls[i].error = "COMPONENT_IS_MISSING_FROM_STORE"
                   /\ calls[i].returned = ""
            /\ calls[i].throwIfMissing = "false" =>
                   /\ calls[i].error = ""
                   /\ calls[i].returned =
                          IF calls[i].method = "load" THEN "undefined" ELSE "false"

C10_Witness ==
    \E i \in 1..Len(calls) :
        /\ isAbsent(i)
        /\ calls[i].method = "load"
        /\ calls[i].throwIfMissing = "false"
        /\ calls[i].returned = "undefined"

-----------------------------------------------------------------------------
(* Document operations: the options of save *)

isSave(i) == Settled(i) /\ calls[i].method = "save"
isNewOf(i) == optionOr(calls[i].isNew, FALSE)

\* C11: a save fails with COMPONENT_IS_MISSING_FROM_STORE only when isNew is
\* false, and with COMPONENT_ALREADY_EXISTS_IN_STORE only when isNew is true.
C11_ErrorMatchesIsNew ==
    \A i \in 1..Len(calls) :
        isSave(i) =>
            /\ calls[i].error = "COMPONENT_IS_MISSING_FROM_STORE" => ~isNewOf(i)
            /\ calls[i].error = "COMPONENT_ALREADY_EXISTS_IN_STORE" => isNewOf(i)

\* a save called with both options set to true
isBothTrue(i) ==
    /\ calls[i].method = "save"
    /\ calls[i].throwIfMissing = "true"
    /\ calls[i].throwIfExists = "true"

\* C12: a save called with throwIfMissing=true and throwIfExists=true fails
\* with the error saying that the two options cannot both be true, and invokes
\* neither createDocument nor updateDocument.
C12_BothOptionsTrue ==
    \A i \in 1..Len(calls) :
        isBothTrue(i) =>
            /\ calls[i].error = "OptionsBothTrue"
            /\ calls[i].returned = ""
            /\ calls[i].status # "pending"
            /\ \A j \in 1..Len(backendLog) : backendLog[j].call # i

C12_Witness ==
    \E i \in 1..Len(calls) :
        /\ isBothTrue(i)
        /\ Settled(i)
        /\ calls[i].isNew = "true"
        /\ calls[i].error = "OptionsBothTrue"
        /\ backendLog = <<>>

-----------------------------------------------------------------------------
(* Tracing *)

\* the positions of the entries of call i in a trace
EntriesOf(i, t) == {p \in 1..Len(traces[t]) : traces[t][p].call = i}
isTraced(i) == calls[i].trace # 0

\* C13: every call made while tracing is active adds exactly one entry to the
\* trace that was active when it was called, at the time it completes: an
\* entry with a result and no error when the call succeeds, with the error and
\* no result when it fails; it adds no entry before, and none to another trace.
C13_OneEntryPerCall ==
    \A i \in 1..Len(calls) : \A t \in 1..Len(traces) :
        IF Settled(i) /\ calls[i].trace = t
        THEN /\ Cardinality(EntriesOf(i, t)) = 1
             /\ \A p \in EntriesOf(i, t) :
                    /\ traces[t][p].error = calls[i].error
                    /\ traces[t][p].result = calls[i].returned
                    /\ (traces[t][p].error = "") # (traces[t][p].result = "")
        ELSE EntriesOf(i, t) = {}

C13_Witness ==
    \E i, j \in 1..Len(calls) :
        /\ Settled(i) /\ Settled(j)
        /\ calls[i].trace = 1 /\ calls[j].trace = 1
        /\ calls[i].error = "" /\ calls[j].error # ""
        /\ Len(traces[1]) = 2

\* call i completes in this step
Completes(i) == calls[i].status # "done" /\ calls'[i].status = "done"

\* C14 (as amended): trace entries are in completion order.  When a call
\* completes, its entry is added after the last entry of the trace it was
\* called under, and every entry already there belongs to a call that has
\* completed before, whether it was called earlier or later.
C14_CompletionOrder ==
    [][\A i \in 1..Len(calls) :
           Completes(i) /\ isTraced(i) =>
               LET before == traces[calls[i].trace]
                   after == traces'[calls[i].trace]
               IN  /\ Len(after) = Len(before) + 1
                   /\ after[Len(after)].call = i
                   /\ \A p \in 1..Len(before) :
                          /\ after[p].call = before[p].call
                          /\ before[p].call # i
                          /\ Settled(before[p].call)]_vars

\* B was called after A and its entry precedes A's
C14_Witness ==
    \E t \in 1..Len(traces) :
        /\ Len(traces[t]) = 2
        /\ traces[t][1].call = 2
        /\ traces[t][2].call = 1
        /\ calls[1].trace = t /\ calls[2].trace = t

\* C14 as stated: the entries of a trace are in call order.
C14_Original ==
    \A t \in 1..Len(traces) : \A p, q \in 1..Len(traces[t]) :
        p < q => traces[t][p].call < traces[t][q].call

\* C15: a trace only grows, and only at its end: a step keeps every trace that
\* exists, keeps every entry of it at its place and unchanged, and adds at most
\* one entry, after them, which is the entry of the call completing in the step.
C15_AppendOnly ==
    [][/\ Len(traces') >= Len(traces)
       /\ \A t \in 1..Len(traces) :
              /\ Len(traces'[t]) \in {Len(traces[t]), Len(traces[t]) + 1}
              /\ SubSeq(traces'[t], 1, Len(traces[t])) = traces[t]
              /\ Len(traces'[t]) = Len(traces[t]) + 1 =>
                     \E i \in 1..Len(calls) :
                         /\ Completes(i)
                         /\ calls[i].trace = t
                         /\ traces'[t][Len(traces'[t])].call = i]_vars

\* two operations have completed, in the order of their calls, under the trace
\* that is still the current one
C15_Witness ==
    /\ trace # 0
    /\ Len(traces[trace]) = 2
    /\ traces[trace][1].call = 1
    /\ traces[trace][2].call = 2

\* C16: the operation field of every trace entry is the name of the operation
\* of the store that was called.
C16_OperationName ==
    \A t \in 1..Len(traces) : \A p \in 1..Len(traces[t]) :
        traces[t][p].operation = calls[traces[t][p].call].method

-----------------------------------------------------------------------------
(* Document operations: the abstract document operations *)

InvocationsOf(i) == {j \in 1..Len(backendLog) : backendLog[j].call = i}

\* C18: nothing is retried.  Every call invokes at most one abstract document
\* operation, at most once; when that operation fails, the call fails with the
\* very error the operation failed with and returns nothing.
C18_NothingRetried ==
    \A i \in 1..Len(calls) :
        /\ \A j, k \in InvocationsOf(i) : j = k
        /\ \A j \in InvocationsOf(i) : backendLog[j].op = calls[i].backend
        /\ Settled(i) /\ calls[i].answer = "throw" =>
               /\ calls[i].error = BackendError
               /\ calls[i].returned = ""

C18_Witness ==
    \E i \in 1..Len(calls) :
        /\ Settled(i)
        /\ calls[i].method = "save"
        /\ calls[i].answer = "throw"
        /\ calls[i].error = BackendError
        /\ Cardinality(InvocationsOf(i)) = 1

\* a find or a count whose query the compilation rejects
isRejectedQuery(i) ==
    /\ calls[i].method \in {"find", "count"}
    /\ calls[i].storableType \in storables
    /\ toDocumentExpressions(StoreQueries[calls[i].q]).err # ""

\* C19: when the compilation rejects the query given to find or count, the call
\* fails with the error of the compilation and neither findDocuments nor
\* countDocuments is invoked for it.
C19_RejectedBeforeBackend ==
    \A i \in 1..Len(calls) :
        isRejectedQuery(i) =>
            /\ InvocationsOf(i) = {}
            /\ calls[i].backend = ""
            /\ calls[i].status # "pending"
            /\ calls[i].error = toDocumentExpressions(StoreQueries[calls[i].q]).err
            /\ calls[i].returned = ""

C19_Witness ==
    /\ {toDocumentExpressions(StoreQueries[q]).err : q \in 1..Len(StoreQueries)} =
           {"", "InvalidQueryShape", "UnsupportedRootOperator", "UnexpectedObjectValue"}
    /\ \E i \in 1..Len(calls) :
           /\ isRejectedQuery(i)
           /\ Settled(i)
           /\ calls[i].method = "find"
           /\ calls[i].error = "UnexpectedObjectValue"
           /\ backendLog = <<>>

-----------------------------------------------------------------------------
(* Documents *)

IdentifierAttributeNames == {"id"}

\* the attribute selector given to call i selects the attribute
isSelected(i, name) ==
    LET attributeSelector == calls[i].attributeSelector
    IN  \/ attributeSelector \in {Undefined, Bool(1)}
        \/ /\ isPlainObject(attributeSelector)
           /\ name \in PropertyNames(attributeSelector)
           /\ Property(attributeSelector, name) # Bool(0)
        \/ /\ isArray(attributeSelector)
           /\ \E k \in 1..Len(attributeSelector.kids) :
                  attributeSelector.kids[k].v = Str(name)

\* the documents that the document operation of call i resolved to
ResolvedDocuments(i) ==
    IF calls[i].answer = "document" THEN <<StoredDocuments[1]>>
    ELSE IF calls[i].answer = "documents" THEN StoredDocuments
    ELSE <<>>

isRead(i) == Settled(i) /\ calls[i].method \in {"load", "find"}

C20_OperationFromIsNew ==
    \A j \in 1..Len(backendLog) :
        LET i == backendLog[j].call
            document == toDocument(calls[i].serializedStorable)
        IN  calls[i].method = "save" =>
                IF isNewOf(i)
                THEN /\ backendLog[j].op = "createDocument"
                     /\ \A k \in 1..Len(backendLog[j].document.kids) :
                            backendLog[j].document.kids[k].v # Undefined
                     /\ PropertyNames(backendLog[j].document) =
                            {document.kids[k].k : k \in
                                {n \in 1..Len(document.kids) :
                                    document.kids[n].v # Undefined}}
                     /\ backendLog[j].documentPatch = NoDocumentPatch
                ELSE /\ backendLog[j].op = "updateDocument"
                     /\ backendLog[j].documentPatch = buildDocumentPatch(document)
                     /\ backendLog[j].document = Undefined

C20_Witness ==
    \E j \in 1..Len(backendLog) :
        /\ calls[backendLog[j].call].method = "save"
        /\ calls[backendLog[j].call].isNew = "true"
        /\ calls[backendLog[j].call].serializedStorable = SerializedStorables[2]
        /\ backendLog[j].op = "createDocument"
        /\ PropertyNames(backendLog[j].document) = {"__component", "id"}

-----------------------------------------------------------------------------
(* Registration of a root component *)

isRootRegistration == registration.op = "registerRootComponent"
StorablesFrom(rootComponent) ==
    {component \in {rootComponent} \cup DeepProvidedComponents(rootComponent) :
        isStorableLikeClass(component)}

\* C21: a registerRootComponent(root) that returns leaves the root component,
\* when it is storable, and every storable component root provides directly
\* or recursively registered in the store, so that hasStorable(name) is true
\* for each of them; the call throws 'No storable components were found'
\* exactly when neither root nor any provided component is storable.
C21_RootComponentRegistered ==
    isRootRegistration =>
        /\ registration.error = "NoStorableComponents"
               <=> StorablesFrom(registration.component) = {}
        /\ registration.error = "" =>
               \A storable \in StorablesFrom(registration.component) :
                   /\ hasStorable(registration.store, getComponentName(storable))
                   /\ registries[registration.store][getComponentName(storable)]
                          = storable

\* a root component that is not storable itself was registered, and a
\* component it provides recursively is in the registry
C21_Witness ==
    /\ isRootRegistration
    /\ registration.error = ""
    /\ registration.component = "Backend"
    /\ hasStorable(registration.store, "Actor")

isRegistrationStep == registration'.n # registration.n

\* C27: registerRootComponent is all-or-nothing: when it throws (no storable
\* component found, or registerStorable failing for one of the provided
\* components), the root components and the registered storables of the
\* store are the same as before the call.
C27_AllOrNothing ==
    [][(/\ isRegistrationStep
        /\ registration'.op = "registerRootComponent"
        /\ registration'.error # "")
           => /\ rootComponents' = rootComponents
              /\ registries' = registries
              /\ storeOf' = storeOf]_vars

-----------------------------------------------------------------------------
(* The registries of the stores *)

RegistryEntriesSound ==
    \A store \in Stores, name \in ComponentNames :
        LET storable == registries[store][name]
        IN  storable # "" =>
                /\ getComponentName(storable) = name
                /\ storeOf[storable] = store
InOneRegistry ==
    \A store, other \in Stores, name, otherName \in ComponentNames :
        (registries[store][name] # ""
            /\ registries[store][name] = registries[other][otherName])
                => store = other /\ name = otherName
registriesUnchanged == registries' = registries /\ storeOf' = storeOf
isStorableRegistration ==
    isRegistrationStep /\ registration'.op = "registerStorable"

\* what registerStorable(storable) does in a store, by the state before it
RegisterStorableOutcome ==
    LET store == registration'.store
        storable == registration'.component
        name == getComponentName(storable)
    IN  /\ storeOf[storable] = store =>
                registration'.error = "" /\ registriesUnchanged
        /\ storeOf[storable] \notin {0, store} =>
                registration'.error = "RegisteredInAnotherStore"
                    /\ registriesUnchanged
        /\ (storeOf[storable] = 0 /\ isStorableLikeClass(storable)
                /\ registries[store][name] \notin {"", storable}) =>
                registration'.error = "NameAlreadyRegistered"
                    /\ registriesUnchanged

\* C28: after any sequence of registerStorable and registerRootComponent
\* calls on any number of stores, every entry of a store's registry maps a
\* name to a storable whose component name is that name and whose store is
\* that store, and no storable is in the registry of two stores; registering
\* a storable again in its own store changes nothing, while registering it in
\* another store, or registering a different storable under a name already
\* taken, fails and leaves the registries unchanged.
C28_RegistriesConsistent ==
    /\ [](RegistryEntriesSound /\ InOneRegistry)
    /\ [][isStorableRegistration => RegisterStorableOutcome]_vars

\* a storable of one store was refused by another store whose registry holds
\* a storable of its own
C28_Witness ==
    /\ registration.op = "registerStorable"
    /\ registration.error = "RegisteredInAnotherStore"
    /\ storeOf[registration.component] \notin {0, registration.store}
    /\ \E name \in ComponentNames : hasStorable(registration.store, name)

-----------------------------------------------------------------------------
(* The patch of a saved document *)

isUpdate(j) == backendLog[j].op = "updateDocument"
SavedDocument(j) == toDocument(calls[backendLog[j].call].serializedStorable)
NamesOf(names) == {names[i] : i \in 1..Len(names)}

\* the names of a sparse document by what the document says of them
RemovedNames(document) ==
    {name \in PropertyNames(document) : Property(document, name) = Undefined}
AssignedNames(document) == PropertyNames(document) \ RemovedNames(document)

\* the record is the other record with the sparse document overlaid
isOverlaid(overlaid, record, document) ==
    /\ PropertyNames(overlaid) =
           (PropertyNames(record) \cup AssignedNames(document))
               \ RemovedNames(document)
    /\ \A name \in PropertyNames(overlaid) :
           Property(overlaid, name) =
               IF name \in PropertyNames(document)
               THEN Property(document, name)
               ELSE Property(record, name)

-----------------------------------------------------------------------------
(* Empty mappings in a query *)

isEmptyMapping(value) == value = Obj(<<>>)
isUnrestricted(entry) == ~looksLikeOperator(entry.k) /\ isEmptyMapping(entry.v)
isRestricting(entry) == ~isUnrestricted(entry)
\* the query less its attributes whose value is an empty mapping
Restricting(queryObject) ==
    [queryObject EXCEPT !.kids = SelectSeq(queryObject.kids, isRestricting)]

\* C23: a query value that is an empty mapping {} at an attribute path means
\* no restriction: it adds no expression and raises no error, so that
\* toDocumentExpressions({a: {}}) gives the same empty list as
\* toDocumentExpressions({}), and an empty mapping next to other keys leaves
\* the expressions of those keys unchanged.
C23_EmptyMappingUnrestricted ==
    pc = "done" =>
        /\ Restricting(query).kids = <<>> => result = Ok(<<>>)
        /\ result = toDocumentExpressions(Restricting(query))

\* {a: {}, b: 1} was compiled to the one expression of b
C23_Witness ==
    /\ pc = "done"
    /\ query = Obj(<<Entry("a", Obj(<<>>)), Entry("b", Num(1))>>)
    /\ result.err = ""
    /\ Len(result.exprs) = 1
    /\ result.exprs[1].path = "b"

-----------------------------------------------------------------------------
(* The options of save *)

\* C24: save never fails with the error saying that throwIfMissing and
\* throwIfExists cannot both be true when the caller set at most one of the
\* two options to true, for either value of isNew.
C24_BothTrueOnlyWhenBothSet ==
    \A i \in 1..Len(calls) :
        (calls[i].method = "save" /\ ~isBothTrue(i)) =>
            calls[i].error # "OptionsBothTrue"

-----------------------------------------------------------------------------
(* Operations in flight across tracing sessions *)

isCalled == Len(calls') = Len(calls) + 1

\* C25: an in-flight operation is bound to the trace that was current when it
\* was called.  Its entry goes to that trace alone: an operation called while
\* tracing is off is never recorded, also when startTrace is called before it
\* completes, and an operation called before a stopTrace or a new startTrace
\* never adds an entry to the trace of the later tracing session.
C25_BoundToTraceAtCall ==
    /\ [][isCalled => calls'[Len(calls')].trace = trace]_vars
    /\ [](\A i \in 1..Len(calls) : \A t \in 1..Len(traces) :
              EntriesOf(i, t) # {} => calls[i].trace = t)
    /\ [][\A i \in 1..Len(calls) :
              (Completes(i) /\ trace' # calls[i].trace /\ trace' # 0)
                  => traces'[trace'] = traces[trace']]_vars

\* in the second tracing session, which has no entry: an operation called in
\* the first session has completed and is in the trace of the first, and an
\* operation called while tracing was off is still in flight
C25_Witness ==
    \E i, j \in 1..Len(calls) :
        /\ trace = 2
        /\ traces[2] = <<>>
        /\ Settled(i) /\ calls[i].trace = 1
        /\ EntriesOf(i, 1) # {}
        /\ calls[j].status = "pending" /\ calls[j].trace = 0

-----------------------------------------------------------------------------
(* getTrace *)

\* the steps of the store: startTrace opens a trace, the operations and
\* their completions change the calls, the step left is stopTrace
isStartTrace == Len(traces') = Len(traces) + 1
isOperationStep == calls' # calls
NotTracing == getTrace.error = "NotCurrentlyTracing"

\* C26: after any sequence of startTrace, stopTrace and operations, getTrace
\* fails with 'The store is not currently tracing' exactly when no startTrace
\* was called since the store was built or since the last stopTrace;
\* immediately after startTrace, getTrace returns an empty sequence, also
\* when a trace holding entries was active before.
C26_GetTrace ==
    /\ [](Len(traces) = 0 => NotTracing)
    /\ [][IF isStartTrace THEN getTrace' = Traced("", <<>>)
          ELSE IF isOperationStep THEN NotTracing' = NotTracing
          ELSE NotTracing']_vars

\* a second trace has just been started, it is empty, and the first one
\* holds entries
C26_Witness ==
    /\ trace = 2
    /\ getTrace = Traced("", <<>>)
    /\ Len(traces[1]) > 0

-----------------------------------------------------------------------------
(* The method decorated with @route() *)

\* how many times a helper was defined on the method
TimesDefined(name) ==
    Cardinality({p \in 1..Len(routed.defined) : routed.defined[p] = name})
HelperNames(helpers) == {helpers[p] : p \in 1..Len(helpers)}
\* the reads made while the class read through had a router
ReadsWithRouter == {p \in 1..Len(routed.reads) : routed.reads[p].hasRouter}
isReadStep == Len(routed'.reads) = Len(routed.reads) + 1

-----------------------------------------------------------------------------
(* The round trip of a field value *)

\* the value is null, undefined or of the type of the field
isValueOfField == field.value \in {Undefined, Null} \/ checkType(field.type, field.value)

\* C30: field serialization round-trips.  For a field of a built-in type and
\* every value v of that type, and for null and undefined,
\* createValue(serializeValue(v, {includeUndefinedFields: true})) returns a
\* value equal to v and does not throw, including for an object-typed field
\* whose value has a key named _type.
C30_FieldRoundTrip ==
    (isValueOfField /\ field.includeUndefinedFields) =>
        /\ field.pc \in {"serialized", "created"} => field.serialized.error = ""
        /\ field.pc = "created" => field.created = Value(field.value)

====
